---- MODULE Spec2Model ----
(***************************************************************************)
(* Model of the TOGA pipeline controller (src/toga.py, class Toga): the    *)
(* constructor with its validation gate, the stage sequence of Toga.run,   *)
(* the job bucketer and its polling monitor, and the teardown routine die. *)
(* External collaborators (sub-processes, library calls of other modules)  *)
(* are inputs: their exit codes, return values and produced artifacts are  *)
(* drawn with \E in the action that calls them.                            *)
(***************************************************************************)
EXTENDS Integers, Sequences, FiniteSets, TLC

\* ------------------------------------------------------------------ bounds
MaxBuckets == 2     \* longest --cesar_buckets list explored
MaxJobs == 2        \* longest combined realignment job list explored

\* ------------------------------------------------------- program constants
DoneRc == 0         \* die(..., rc=0) on the three non-fatal exits
DefaultRcZero == DoneRc
DefaultRc == 1      \* die(self, msg, rc=1)

\* exit codes an external process may return
ExitCodes == {0, 1, 2}
\* memory classes a job line can be tagged with (_<b>.bdb)
JobTags == {2, 5}
\* exit codes a bucket request may finish with (success, failure)
FinishCodes == {0, 1}
\* values of the loop variable b: 0 for the single pool, else a memory class
BucketVals == {0} \cup JobTags

RECURSIVE SeqsUpTo(_, _)
SeqsUpTo(S, n) ==
    IF n = 0 THEN {<<>>}
    ELSE LET shorter == SeqsUpTo(S, n - 1)
         IN  shorter \cup {Append(s, x) : s \in {t \in shorter : Len(t) = n - 1}, x \in S}

Range(s) == {s[i] : i \in DOMAIN s}

\* ------------------------------------------------------------------ paths
\* every path is a tuple: <<name>> inside the project directory,
\* <<name, b>> for the per-bucket artifacts
chain_file == <<"genome_alignment.chain">>
chain_index_file == <<"genome_alignment.bst">>
chain_index_txt_file == <<"genome_alignment.chain_ID_position">>
index_bed_file == <<"toga_filt_ref_annot.hdf5">>
ch_cl_jobs == <<"chain_classification_jobs">>
chain_class_results == <<"chain_classification_results">>
chain_cl_jobs_combined == <<"chain_class_jobs_combined">>
chain_results_df == <<"chain_results_df.tsv">>
cesar_jobs_dir == <<"cesar_jobs">>
cesar_combined == <<"cesar_combined">>
cesar_results == <<"cesar_results">>
intermediate_bed == <<"intermediate.bed">>
rejected_dir == <<"rejected">>
gene_loss_data == <<"inact_mut_data">>
rejected_log == <<"genes_rejection_reason.tsv">>
inact_mut_file == <<"inact_mut_data.txt">>
cesar_results_merged == <<"cesar_results.txt">>
nf_chain_feats_path == <<"nextflow_logs/chain_feats">>
config_file_path(b) == <<"cesar_config_queue.nf", b>>
joblist_path(b) == <<"cesar_joblist_queue.txt", b>>
nf_project_path(b) == <<"nextflow_logs/cesar_q", b>>

Paths ==
    {chain_file, chain_index_file, chain_index_txt_file, index_bed_file,
     ch_cl_jobs, chain_class_results, chain_cl_jobs_combined, chain_results_df,
     cesar_jobs_dir, cesar_combined, cesar_results, intermediate_bed,
     rejected_dir, gene_loss_data, rejected_log, inact_mut_file,
     cesar_results_merged, nf_chain_feats_path}
    \cup {config_file_path(b) : b \in BucketVals}
    \cup {joblist_path(b) : b \in BucketVals}
    \cup {nf_project_path(b) : b \in BucketVals}

\* the stage methods in the order Toga.run calls them
RunOrderSwapped ==
    << "make_indexed_chain", "make_indexed_bed", "split_chain_jobs",
       "extract_chain_features", "merge_chains_output", "classify_chains",
       "run_cesar_jobs", "split_cesar_jobs", "merge_cesar_output",
       "gene_loss_summary", "orthology_type_map", "merge_split_files" >>

RunOrder ==
    << "make_indexed_chain", "make_indexed_bed", "split_chain_jobs",
       "extract_chain_features", "merge_chains_output", "classify_chains",
       "split_cesar_jobs", "run_cesar_jobs", "merge_cesar_output",
       "gene_loss_summary", "orthology_type_map", "merge_split_files" >>

StageIndex(s) == CHOOSE i \in DOMAIN RunOrder : RunOrder[i] = s

\* the statement (or program point) run() reaches when stage s returns
AfterStage(s) ==
    IF StageIndex(s) = Len(RunOrder) THEN "run_end"
    ELSE RunOrder[StageIndex(s) + 1]

VARIABLES
    args,            \* the parsed command line and the input files' presence
    pc,              \* program point of the controller thread
    temp_files,      \* self.temp_files
    fs,              \* the file system: path -> "absent" | "file" | "dir"
    created,         \* paths that existed at some point of the run
    keep_temp,       \* self.keep_temp: "unset" before line 128, then "True" | "False"
    local_executor,  \* self.local_executor: "unset" | "True" | "False"
    t_2bit, q_2bit,  \* self.t_2bit, self.q_2bit: "unset" | "path"
    cesar_ok_merged, \* self.cesar_ok_merged: "None" | "True" | "False"
    records,         \* persisted records written by __init__
    started,         \* stage methods of run() entered so far, in order
    returned,        \* stage methods of run() that returned, in order
    time_marks,      \* lines appended to the time log
    rcs,             \* exit code of each synchronous sub-process (-1: not run)
    joblist,         \* lines of cesar_combined: the bucket tag of each job line
    jobfiles,        \* content of each per-bucket job file written
    buckets,         \* local list buckets of __run_cesar_jobs
    b_idx,           \* position of the for loop over buckets
    processes,       \* local list processes: one handle per Popen
    project_paths,   \* local list project_paths
    all_done,        \* local flag all_done of the monitor
    stderr_msg,      \* diagnostic written to the error stream by the exit path
    warned,          \* "SOME CESAR JOBS CRASHED" printed by run()
    die_rc,          \* rc passed to die (-1 while die was not called)
    cleanups,        \* number of executions of die's cleanup loop
    exit_via,        \* "none" | "die" | "sys_exit" | "exception"
    exit_status,     \* process exit status (-1 while the process runs)
    cls,             \* classify_chains: its program point, arguments, locals
                     \* and output files ([pc |-> "off"] while it is not called)
    gate             \* __check_param_files: the optional files given, what the
                     \* checks read and what they wrote ([at |-> "off"]
                     \* while the checks are not followed one by one)

vars == << args, pc, temp_files, fs, created, keep_temp, local_executor,
           t_2bit, q_2bit, cesar_ok_merged, records, started, returned,
           time_marks, rcs, joblist, jobfiles, buckets, b_idx, processes,
           project_paths, all_done, stderr_msg, warned,
           die_rc, cleanups, exit_via, exit_status, cls, gate >>

\* groups of variables for UNCHANGED
ctlVars == << args, pc, temp_files, fs, created, keep_temp, local_executor,
              t_2bit, q_2bit, cesar_ok_merged, records, started, returned,
              time_marks, rcs, joblist, jobfiles, buckets, b_idx, processes,
              project_paths, all_done, stderr_msg, warned,
              die_rc, cleanups, exit_via, exit_status, gate >>
cesarVars == << joblist, jobfiles, buckets, b_idx, processes, project_paths,
                all_done >>
exitVars == << stderr_msg, die_rc, cleanups, exit_via, exit_status >>
selfVars == << keep_temp, local_executor, t_2bit, q_2bit, cesar_ok_merged >>

SyncProcs == {"configure", "chain_filter", "split_chain_jobs", "nextflow_chain_feats",
              "model_trainer", "split_cesar_jobs"}

\* --cesar_buckets after parsing: "0" is <<0>>, otherwise the listed memory
\* classes (any order, repetitions and the empty list included)
BucketSpecs == {<<0>>} \cup SeqsUpTo(JobTags, MaxBuckets)

Args ==
    [ keep_temp : BOOLEAN,
      stop_at_chain_class : BOOLEAN,
      time_marks : BOOLEAN,             \* a --time_marks file was given
      do_not_del_nf_logs : BOOLEAN,
      nextflow_config_dir : BOOLEAN,    \* a config directory was given
      cesar_buckets : BucketSpecs,
      tDB_exists : BOOLEAN,             \* the reference 2bit file is present
      qDB_exists : BOOLEAN ]            \* the query 2bit file is present

\* ------------------------------------------------- classify_chains inputs
MaxRows == 2

\* gene and chain identifiers of the feature table
Genes == {"G1", "G2"}
Chains == {1, 2}
\* synt, exon_cover; (ex_num, cds_qlen in hundredths): one exon, several
\* exons at the 0.95 cut, several exons above it
SyntVals == {0, 1, 2}
ExonCoverVals == {0, 100}
ExonShapes == {<<1, 97>>, <<2, 95>>, <<2, 97>>}
\* predict_proba(...)[:, 1] in hundredths
PredValues == {20, 50, 80}
\* annot_threshold=0.5 in hundredths
annot_threshold == 50

\* one data row of the feature table; cds_qlen is read only in the mask of
\* lines 72-74 together with synt == 1, so the value at the cut is drawn for
\* rows with synt = 1 only
Rows ==
    {r \in {[gene |-> g, chain |-> c, synt |-> s, exon_cover |-> e,
             ex_num |-> x[1], cds_qlen |-> x[2]] :
               g \in Genes, c \in Chains, s \in SyntVals, e \in ExonCoverVals,
               x \in ExonShapes} :
        r.cds_qlen = 95 => r.synt = 1}

\* the feature tables of up to MaxRows rows; identifiers are opaque names,
\* so the first row is the one that names gene G1 and chain 1
Tables ==
    {<<>>} \cup
    {<<f>> \o t : f \in {r \in Rows : r.gene = "G1" /\ r.chain = 1},
                 t \in SeqsUpTo(Rows, MaxRows - 1)}

\* the two callers: Toga.__classify_chains asks for the rejected log and the
\* raw scores, main() of the module for neither unless --ro is given
ClsCalls == {[rejected |-> TRUE, raw_out |-> TRUE],
             [rejected |-> FALSE, raw_out |-> FALSE]}

NoFile == [written |-> FALSE, lines |-> {}]

\* the raw-score table keeps the order of its rows
NoTable == [written |-> FALSE, lines |-> <<>>]

\* the fields of cls under the names classify_chains gives them
cls_pc == cls.pc
cls_args == cls.args
table == cls.table
init_genes_set == cls.init_genes_set
gene_to_pp_genes == cls.gene_to_pp_genes
df == cls.df
trans_lines == cls.trans_lines
df_se == cls.df_se
df_me == cls.df_me
overall_result == cls.overall_result
gene_class_chains == cls.gene_class_chains
output_file == cls.output_file
raw_out_file == cls.raw_out_file
rejected_file == cls.rejected_file

\* classify_chains entered with arguments a on table t: line 66 not yet run
ClsEntered(a, t) ==
    [pc |-> "read_csv", args |-> a, table |-> t,
     init_genes_set |-> {},
     gene_to_pp_genes |-> [g \in Genes |-> <<>>],
     df |-> <<>>, trans_lines |-> <<>>, df_se |-> <<>>, df_me |-> <<>>,
     overall_result |-> <<>>,
     gene_class_chains |-> [g \in {} |-> <<>>],
     output_file |-> NoFile, raw_out_file |-> NoTable, rejected_file |-> NoFile]

\* classify_chains is not running
ClsOff == cls = [pc |-> "off"]

\* the checks of __check_param_files are not followed one by one
GateOff == gate = [at |-> "off"]

Init ==
    /\ ClsOff
    /\ GateOff
    /\ args \in Args
    /\ pc = "init_modules"
    /\ temp_files = <<>>
    /\ fs = [p \in Paths |-> "absent"]
    /\ created = {}
    /\ keep_temp = "unset"
    /\ local_executor = "unset"
    /\ t_2bit = "unset"
    /\ q_2bit = "unset"
    /\ cesar_ok_merged = "None"
    /\ records = {}
    /\ started = <<>>
    /\ returned = <<>>
    /\ time_marks = <<>>
    /\ rcs = [p \in SyncProcs |-> -1]
    /\ joblist = <<>>
    /\ jobfiles = [b \in BucketVals |-> <<>>]
    /\ buckets = <<>>
    /\ b_idx = 1
    /\ processes = <<>>
    /\ project_paths = <<>>
    /\ all_done = FALSE
    /\ stderr_msg = "none"
    /\ warned = FALSE
    /\ die_rc = -1
    /\ cleanups = 0
    /\ exit_via = "none"
    /\ exit_status = -1

\* ------------------------------------------------------------------ die
\* the cleanup loop of die applied to file system f with temp list tf
RemoveTempFilesOnly(f, tf, keep) ==
    [p \in DOMAIN f |->
        IF p \in Range(tf) /\ f[p] = "file" /\ ~keep THEN "absent" ELSE f[p]]

RemoveTemp(f, tf, keep) ==
    [p \in DOMAIN f |->
        IF p \in Range(tf) /\ f[p] \in {"file", "dir"} /\ ~keep THEN "absent" ELSE f[p]]

\* die(msg, rc) called with file system f and temp list tf in effect.
\* Reading self.keep_temp before line 128 raises AttributeError, which ends
\* the process with status 1 and a traceback, the loop not completed.
Die(msg, rc, f, tf) ==
    IF tf # <<>> /\ keep_temp = "unset"
    THEN /\ fs' = f
         /\ stderr_msg' = "traceback"
         /\ die_rc' = rc
         /\ cleanups' = cleanups
         /\ exit_via' = "exception"
         /\ exit_status' = 1
         /\ pc' = "exited"
    ELSE /\ fs' = RemoveTemp(f, tf, keep_temp = "True")
         /\ stderr_msg' = msg
         /\ die_rc' = rc
         /\ cleanups' = cleanups + 1
         /\ exit_via' = "die"
         /\ exit_status' = rc
         /\ pc' = "exited"

PyBool(b) == IF b THEN "True" ELSE "False"

\* __call_proc: rc != 0
ProcDiedNever(rc) == FALSE

ProcDied(rc) == rc # 0

\* what a path is once it exists
Kind(p) ==
    IF p \in {ch_cl_jobs, chain_class_results, cesar_jobs_dir, cesar_results,
              rejected_dir, gene_loss_data, nf_chain_feats_path}
          \cup {nf_project_path(b) : b \in BucketVals}
    THEN "dir" ELSE "file"

Create(f, S) == [p \in DOMAIN f |-> IF p \in S THEN Kind(p) ELSE f[p]]

Remove(f, S) == [p \in DOMAIN f |-> IF p \in S THEN "absent" ELSE f[p]]

\* __time_mark(msg)
TimeMark(msg) ==
    time_marks' = IF args.time_marks THEN Append(time_marks, msg) ELSE time_marks

\* a stage method of run() is entered / returns to run()
Enter(s) == pc = s /\ started' = Append(started, s)

Return(s, f) ==
    /\ fs' = f
    /\ pc' = AfterStage(s)
    /\ returned' = Append(returned, s)
    /\ UNCHANGED exitVars

\* ------------------------------------------------------------- __init__
\* lines 47-52: __modules_addr, __check_dependencies, __check_completeness
InitDependencies ==
    /\ pc = "init_modules"
    /\ \E not_all_found \in BOOLEAN, rc \in ExitCodes, complete \in BOOLEAN :
          /\ ~not_all_found => rc = 0
          /\ rcs' = IF not_all_found THEN [rcs EXCEPT !["configure"] = rc] ELSE rcs
          /\ IF not_all_found /\ ProcDied(rc)
             THEN Die("Error! Process died! Abort.", DefaultRc, fs, temp_files)
             ELSE IF ~complete
             THEN Die("Error! File not found!", DefaultRc, fs, temp_files)
             ELSE pc' = "init_nf_config" /\ UNCHANGED << fs, exitVars >>
    /\ UNCHANGED << cls, gate, args, temp_files, created, selfVars, records, started, returned,
                    time_marks, cesarVars, warned >>

\* lines 53-55: __get_nf_dir, __check_nf_config
InitNfConfig ==
    /\ pc = "init_nf_config"
    /\ IF ~args.nextflow_config_dir
       THEN /\ local_executor' = "True"
            /\ pc' = "init_chain_filter"
            /\ UNCHANGED << fs, exitVars >>
       ELSE \E config_ok \in BOOLEAN :
              IF ~config_ok
              THEN /\ Die("Error! Nextflow config not found!", DefaultRc, fs, temp_files)
                   /\ UNCHANGED local_executor
              ELSE /\ local_executor' = "False"
                   /\ pc' = "init_chain_filter"
                   /\ UNCHANGED << fs, exitVars >>
    /\ UNCHANGED << cls, gate, args, temp_files, created, keep_temp, t_2bit, q_2bit, cesar_ok_merged,
                    records, started, returned, time_marks, rcs, cesarVars, warned >>

\* the chain filter with its output registered as a temp file at once
InitChainFilterTracks ==
    /\ pc = "init_chain_filter"
    /\ \E chain_input_exists \in BOOLEAN, rc \in ExitCodes, wrote \in BOOLEAN :
          LET f0 == Create(fs, {rejected_dir})
              f1 == IF wrote \/ rc = 0 THEN Create(f0, {chain_file}) ELSE f0
          IN  IF ~chain_input_exists
              THEN /\ Die("Error! File doesn't exist!", DefaultRc, f0, temp_files)
                   /\ UNCHANGED temp_files
                   /\ created' = created \cup {rejected_dir}
                   /\ UNCHANGED rcs
              ELSE /\ rcs' = [rcs EXCEPT !["chain_filter"] = rc]
                   /\ created' = created \cup {p \in Paths : f1[p] # "absent"}
                   /\ temp_files' = Append(temp_files, chain_file)
                   /\ IF ProcDied(rc)
                      THEN Die("Error! Process died! Abort.", DefaultRc, f1,
                               Append(temp_files, chain_file))
                      ELSE fs' = f1 /\ pc' = "init_find_two_bit" /\ UNCHANGED exitVars
    /\ UNCHANGED << cls, gate, args, selfVars, records, started, returned,
                    time_marks, cesarVars, warned >>

\* lines 59-103: project directory, rejected directory, chain score filter
InitChainFilter ==
    /\ pc = "init_chain_filter"
    /\ \E chain_input_exists \in BOOLEAN, rc \in ExitCodes, wrote \in BOOLEAN :
          LET f0 == Create(fs, {rejected_dir})
              f1 == IF wrote \/ rc = 0 THEN Create(f0, {chain_file}) ELSE f0
          IN  IF ~chain_input_exists
              THEN /\ Die("Error! File doesn't exist!", DefaultRc, f0, temp_files)
                   /\ created' = created \cup {rejected_dir}
                   /\ UNCHANGED rcs
              ELSE /\ rcs' = [rcs EXCEPT !["chain_filter"] = rc]
                   /\ created' = created \cup {p \in Paths : f1[p] # "absent"}
                   /\ IF ProcDied(rc)
                      THEN Die("Error! Process died! Abort.", DefaultRc, f1, temp_files)
                      ELSE fs' = f1 /\ pc' = "init_find_two_bit" /\ UNCHANGED exitVars
    /\ UNCHANGED << cls, gate, args, temp_files, selfVars, records, started, returned,
                    time_marks, cesarVars, warned >>

\* __find_two_bit(db): the path if the file (or its alias) exists, else die
\* lines 105-131: attribute assignments, keep_temp, the two 2bit lookups
InitFindTwoBit ==
    /\ pc = "init_find_two_bit"
    /\ keep_temp' = PyBool(args.keep_temp)
    /\ IF ~args.tDB_exists
       THEN /\ Die("Two bit file not found! Abort", DefaultRc, fs, temp_files)
            /\ UNCHANGED << t_2bit, q_2bit >>
       ELSE IF ~args.qDB_exists
       THEN /\ Die("Two bit file not found! Abort", DefaultRc, fs, temp_files)
            /\ t_2bit' = "path"
            /\ UNCHANGED q_2bit
       ELSE /\ t_2bit' = "path"
            /\ q_2bit' = "path"
            /\ pc' = "init_check_param_files"
            /\ UNCHANGED << fs, exitVars >>
    /\ UNCHANGED << cls, gate, args, temp_files, created, local_executor, cesar_ok_merged, records,
                    started, returned, time_marks, rcs, cesarVars, warned >>

\* lines 133-161: remaining attributes, __check_param_files (validation gate)
InitCheckParamFiles ==
    /\ pc = "init_check_param_files"
    /\ \E valid \in BOOLEAN :
          IF ~valid
          THEN Die("Error! Validation failed", DefaultRc, fs, temp_files)
          ELSE pc' = "init_dump" /\ UNCHANGED << fs, exitVars >>
    /\ UNCHANGED << cls, gate, args, temp_files, created, selfVars, records, started, returned,
                    time_marks, rcs, cesarVars, warned >>

\* the dump with the invocation arguments left unwritten
InitDumpStateOnly ==
    /\ pc = "init_dump"
    /\ records' = {"toga_init_state.json"}
    /\ pc' = RunOrder[1]
    /\ UNCHANGED << cls, gate, args, temp_files, fs, created, selfVars, started, returned,
                    time_marks, rcs, cesarVars, warned, exitVars >>

\* lines 163-171: the two persisted records; main() then calls run()
InitDump ==
    /\ pc = "init_dump"
    /\ records' = {"toga_init_state.json", "project_args.json"}
    /\ pc' = RunOrder[1]
    /\ UNCHANGED << cls, gate, args, temp_files, fs, created, selfVars, started, returned,
                    time_marks, rcs, cesarVars, warned, exitVars >>

\* ------------------------------------------------------------------ run
\* __make_indexed_chain (lines 489-499)
MakeIndexedChain ==
    /\ Enter("make_indexed_chain")
    /\ temp_files' = temp_files \o << chain_index_file, chain_file, chain_index_txt_file >>
    /\ created' = created \cup {chain_index_file, chain_index_txt_file}
    /\ Return("make_indexed_chain", Create(fs, {chain_index_file, chain_index_txt_file}))
    /\ UNCHANGED << cls, gate, args, selfVars, records, time_marks, rcs, cesarVars, warned >>

\* __make_indexed_bed with the list assigned instead of appended to
MakeIndexedBedAssigns ==
    /\ Enter("make_indexed_bed")
    /\ temp_files' = << index_bed_file >>
    /\ created' = created \cup {index_bed_file}
    /\ Return("make_indexed_bed", Create(fs, {index_bed_file}))
    /\ TimeMark("Made indexes")
    /\ UNCHANGED << cls, gate, args, selfVars, records, rcs, cesarVars, warned >>

\* __make_indexed_bed (lines 509-514), then __time_mark("Made indexes")
MakeIndexedBed ==
    /\ Enter("make_indexed_bed")
    /\ temp_files' = Append(temp_files, index_bed_file)
    /\ created' = created \cup {index_bed_file}
    /\ Return("make_indexed_bed", Create(fs, {index_bed_file}))
    /\ TimeMark("Made indexes")
    /\ UNCHANGED << cls, gate, args, selfVars, records, rcs, cesarVars, warned >>

\* __split_chain_jobs (lines 516-539), then __time_mark("Split chain jobs")
SplitChainJobs ==
    /\ Enter("split_chain_jobs")
    /\ LET outs == {ch_cl_jobs, chain_class_results, chain_cl_jobs_combined}
           tf == temp_files \o << ch_cl_jobs, chain_class_results, chain_cl_jobs_combined >>
       IN  /\ temp_files' = tf
           /\ \E rc \in ExitCodes, made \in SUBSET outs :
                 /\ rc = 0 => made = outs
                 /\ rcs' = [rcs EXCEPT !["split_chain_jobs"] = rc]
                 /\ created' = created \cup made
                 /\ IF ProcDied(rc)
                    THEN /\ Die("Error! Process died! Abort.", DefaultRc, Create(fs, made), tf)
                         /\ UNCHANGED << returned, time_marks >>
                    ELSE /\ Return("split_chain_jobs", Create(fs, made))
                         /\ TimeMark("Split chain jobs")
    /\ UNCHANGED << cls, gate, args, selfVars, records, cesarVars, warned >>

\* shutil.rmtree of a nextflow log directory unless --do_not_del_nf_logs
KeepNfLogsNever == FALSE

KeepNfLogs == args.do_not_del_nf_logs

\* __extract_chain_features with the log directory removed before the
\* status is looked at
ExtractChainFeaturesCleansFirst ==
    /\ Enter("extract_chain_features")
    /\ \E rc \in ExitCodes :
          LET f0 == Create(fs, {nf_chain_feats_path})
          IN  /\ rcs' = [rcs EXCEPT !["nextflow_chain_feats"] = rc]
              /\ created' = created \cup {nf_chain_feats_path}
              /\ IF ProcDied(rc)
                 THEN /\ Die("Error! Process died", DefaultRc,
                             IF KeepNfLogs THEN f0 ELSE Remove(f0, {nf_chain_feats_path}),
                             temp_files)
                      /\ UNCHANGED << returned, time_marks >>
                 ELSE /\ Return("extract_chain_features",
                                IF KeepNfLogs THEN f0 ELSE Remove(f0, {nf_chain_feats_path}))
                      /\ TimeMark("Chain jobs done")
    /\ UNCHANGED << cls, gate, args, temp_files, selfVars, records, cesarVars, warned >>

\* __extract_chain_features (lines 541-560), then __time_mark("Chain jobs done")
ExtractChainFeatures ==
    /\ Enter("extract_chain_features")
    /\ \E rc \in ExitCodes :
          LET f0 == Create(fs, {nf_chain_feats_path})
          IN  /\ rcs' = [rcs EXCEPT !["nextflow_chain_feats"] = rc]
              /\ created' = created \cup {nf_chain_feats_path}
              /\ IF ProcDied(rc)
                 THEN /\ Die("Error! Process died", DefaultRc, f0, temp_files)
                      /\ UNCHANGED << returned, time_marks >>
                 ELSE /\ Return("extract_chain_features",
                                IF KeepNfLogs THEN f0 ELSE Remove(f0, {nf_chain_feats_path}))
                      /\ TimeMark("Chain jobs done")
    /\ UNCHANGED << cls, gate, args, temp_files, selfVars, records, cesarVars, warned >>

\* __merge_chains_output (lines 562-568), then __time_mark("Chains output merged")
MergeChainsOutput ==
    /\ Enter("merge_chains_output")
    /\ temp_files' = Append(temp_files, chain_results_df)
    /\ created' = created \cup {chain_results_df}
    /\ Return("merge_chains_output", Create(fs, {chain_results_df}))
    /\ TimeMark("Chains output merged")
    /\ UNCHANGED << cls, gate, args, selfVars, records, rcs, cesarVars, warned >>

\* self.stop_at_chain_class (line 126)
stop_at_chain_class_never == FALSE

stop_at_chain_class == args.stop_at_chain_class

\* __classify_chains (lines 570-584), then __time_mark("Chains classified")
ClassifyChains ==
    /\ Enter("classify_chains")
    /\ \E models_found \in BOOLEAN, rc \in ExitCodes :
          /\ models_found => rc = 0
          /\ rcs' = IF models_found THEN rcs ELSE [rcs EXCEPT !["model_trainer"] = rc]
          /\ IF ~models_found /\ ProcDied(rc)
             THEN /\ Die("Error! Process died! Abort.", DefaultRc, fs, temp_files)
                  /\ UNCHANGED << returned, time_marks >>
             ELSE IF stop_at_chain_class
             THEN /\ Die("User requested to halt after chain features extraction",
                         DoneRc, fs, temp_files)
                  /\ UNCHANGED << returned, time_marks >>
             ELSE /\ Return("classify_chains", fs)
                  /\ TimeMark("Chains classified")
    /\ UNCHANGED << cls, gate, args, temp_files, created, selfVars, records, cesarVars, warned >>

\* __split_cesar_jobs (lines 592-641), then __time_mark("Split cesar jobs done")
SplitCesarJobs ==
    /\ Enter("split_cesar_jobs")
    /\ IF t_2bit = "unset" \/ q_2bit = "unset"
       THEN /\ Die("There is no 2 bit files provided, cannot go ahead and call CESAR.",
                   DoneRc, fs, temp_files)
            /\ UNCHANGED << temp_files, created, rcs, joblist, returned, time_marks >>
       ELSE LET outs == {cesar_jobs_dir, cesar_combined, cesar_results, gene_loss_data}
                tf == temp_files \o << cesar_jobs_dir, cesar_combined, cesar_results >>
            IN  /\ temp_files' = tf
                /\ \E rc \in ExitCodes, made \in SUBSET outs, lines \in SeqsUpTo(JobTags, MaxJobs) :
                      /\ rc = 0 => made = outs
                      /\ rc # 0 => lines = <<>>
                      /\ rcs' = [rcs EXCEPT !["split_cesar_jobs"] = rc]
                      /\ created' = created \cup made
                      /\ joblist' = lines
                      /\ IF ProcDied(rc)
                         THEN /\ Die("Error! Process died! Abort.", DefaultRc, Create(fs, made), tf)
                              /\ UNCHANGED << returned, time_marks >>
                         ELSE /\ Return("split_cesar_jobs", Create(fs, made))
                              /\ TimeMark("Split cesar jobs done")
    /\ UNCHANGED << cls, gate, args, selfVars, records, jobfiles, buckets, b_idx, processes,
                    project_paths, all_done, warned >>

\* ------------------------------------------------------ __run_cesar_jobs
\* grep _<b>.bdb on one line of the combined job list
MatchesAtLeast(line, b) == line >= b

Matches(line, b) == line = b

\* subprocess.check_output("cat cesar_combined | grep _<b>.bdb")
BucketTasksAll(lines, b) == lines

BucketTasks(lines, b) == SelectSeq(lines, LAMBDA l : Matches(l, b))

\* lines 679-685: grep found no line for a bucket other than the single pool
NoJobsNever(b, tasks) == FALSE

NoJobs(b, tasks) == b # 0 /\ tasks = <<>>

\* p.poll() is None
RunningOrFailed(p) == p.returncode # 0

Running(p) == p.returncode = -1

\* lines 651-661: the local lists and the parsed bucket list
RunCesarJobsBegin ==
    /\ Enter("run_cesar_jobs")
    /\ buckets' = args.cesar_buckets
    /\ b_idx' = 1
    /\ processes' = <<>>
    /\ project_paths' = <<>>
    /\ pc' = IF args.cesar_buckets = <<>> THEN "monitor" ELSE "push"
    /\ UNCHANGED << cls, gate, args, temp_files, fs, created, selfVars, records, returned,
                    time_marks, rcs, joblist, jobfiles, all_done, warned, exitVars >>

\* lines 662-707: one iteration of the loop over buckets
PushBucket ==
    /\ pc = "push"
    /\ b_idx <= Len(buckets)
    /\ LET b == buckets[b_idx]
           cluster == local_executor = "False"
           tf0 == IF cluster THEN Append(temp_files, config_file_path(b)) ELSE temp_files
           new0 == IF cluster THEN {config_file_path(b)} ELSE {}
           bucket_tasks == BucketTasks(joblist, b)
           no_jobs == NoJobs(b, bucket_tasks)
           tf1 == IF b # 0 THEN Append(tf0, joblist_path(b)) ELSE tf0
           new1 == new0 \cup (IF b # 0 THEN {joblist_path(b)} ELSE {})
                        \cup {nf_project_path(b)}
       IN  IF no_jobs
           THEN /\ temp_files' = tf0
                /\ fs' = Create(fs, new0)
                /\ created' = created \cup new0
                /\ UNCHANGED << jobfiles, processes, project_paths >>
           ELSE /\ temp_files' = tf1
                /\ fs' = Create(fs, new1)
                /\ created' = created \cup new1
                /\ jobfiles' = IF b # 0 THEN [jobfiles EXCEPT ![b] = bucket_tasks] ELSE jobfiles
                /\ project_paths' = Append(project_paths, nf_project_path(b))
                /\ processes' = Append(processes,
                                       [q |-> b,
                                        jobs |-> IF b # 0 THEN bucket_tasks ELSE joblist,
                                        returncode |-> -1])
    /\ b_idx' = b_idx + 1
    /\ pc' = IF b_idx = Len(buckets) THEN "monitor" ELSE "push"
    /\ UNCHANGED << cls, gate, args, selfVars, records, started, returned, time_marks, rcs, joblist,
                    buckets, all_done, warned, exitVars >>

\* a launched execution request terminates with some exit code
ProcFinish ==
    /\ exit_status = -1
    /\ \E i \in DOMAIN processes, rc \in FinishCodes :
          /\ Running(processes[i])
          /\ processes' = [processes EXCEPT ![i].returncode = rc]
    /\ UNCHANGED << cls, gate, args, pc, temp_files, fs, created, selfVars, records, started,
                    returned, time_marks, rcs, joblist, jobfiles, buckets, b_idx,
                    project_paths, all_done, warned, exitVars >>

\* lines 716-718: all_done after looking at one handle
AllDoneLastWins(done, running) == ~running

AllDoneAfter(done, running) == IF running THEN FALSE ELSE done

\* lines 714-718: the loop over processes from handle i on, all_done being
\* done when it gets there
RECURSIVE PollHandle(_, _)
PollHandle(i, done) ==
    IF i > Len(processes) THEN done
    ELSE PollHandle(i + 1, AllDoneAfter(done, Running(processes[i])))

\* an iteration of the while loop with all_done starting as False
MonitorIterFromFalse ==
    /\ pc = "monitor"
    /\ all_done' = PollHandle(1, FALSE)
    /\ pc' = "polled"
    /\ UNCHANGED << cls, gate, args, temp_files, fs, created, selfVars, records, started, returned,
                    time_marks, rcs, joblist, jobfiles, buckets, b_idx, processes,
                    project_paths, warned, exitVars >>

\* lines 711-718: an iteration of the while loop: all_done = True, then one
\* look at every handle
MonitorIter ==
    /\ pc = "monitor"
    /\ all_done' = PollHandle(1, TRUE)
    /\ pc' = "polled"
    /\ UNCHANGED << cls, gate, args, temp_files, fs, created, selfVars, records, started, returned,
                    time_marks, rcs, joblist, jobfiles, buckets, b_idx, processes,
                    project_paths, warned, exitVars >>

\* lines 722-725: not all done, sleep ITER_DURATION and look again
MonitorWait ==
    /\ pc = "polled"
    /\ ~all_done
    /\ pc' = "monitor"
    /\ UNCHANGED << cls, gate, args, temp_files, fs, created, selfVars, records, started, returned,
                    time_marks, rcs, cesarVars, warned, exitVars >>

\* lines 719-729: all done, leave the loop, remove the log directories,
\* then __time_mark("Done cesar jobs"). shutil.rmtree of a directory already
\* removed (the same bucket listed twice) raises FileNotFoundError.
RunCesarJobsEnd ==
    /\ pc = "polled"
    /\ all_done
    /\ IF KeepNfLogs
       THEN /\ Return("run_cesar_jobs", fs)
            /\ TimeMark("Done cesar jobs")
       ELSE IF \E i, j \in DOMAIN project_paths : i < j /\ project_paths[i] = project_paths[j]
       THEN /\ fs' = Remove(fs, Range(project_paths))
            /\ stderr_msg' = "traceback"
            /\ exit_via' = "exception"
            /\ exit_status' = 1
            /\ pc' = "exited"
            /\ UNCHANGED << returned, time_marks, die_rc, cleanups >>
       ELSE /\ Return("run_cesar_jobs", Remove(fs, Range(project_paths)))
            /\ TimeMark("Done cesar jobs")
    /\ UNCHANGED << cls, gate, args, temp_files, created, selfVars, records, started, rcs,
                    cesarVars, warned >>

\* ------------------------------------------------------ after the bucketer
\* __merge_cesar_output (lines 731-756), then __time_mark("Merged cesar output")
OkMerged(all_ok) == PyBool(all_ok)

MergeCesarOutput ==
    /\ Enter("merge_cesar_output")
    /\ temp_files' = Append(temp_files, intermediate_bed)
    /\ created' = created \cup {intermediate_bed}
    /\ \E all_ok \in BOOLEAN : cesar_ok_merged' = OkMerged(all_ok)
    /\ Return("merge_cesar_output", Create(fs, {intermediate_bed}))
    /\ TimeMark("Merged cesar output")
    /\ UNCHANGED << cls, gate, args, keep_temp, local_executor, t_2bit, q_2bit, records, rcs,
                    cesarVars, warned >>

\* __transcript_quality and __gene_loss_summary (lines 758-775),
\* then __time_mark("Got gene loss summary")
GeneLossSummary ==
    /\ Enter("gene_loss_summary")
    /\ Return("gene_loss_summary", fs)
    /\ TimeMark("Got gene loss summary")
    /\ UNCHANGED << cls, gate, args, temp_files, created, selfVars, records, rcs, cesarVars, warned >>

\* __orthology_type_map (lines 777-792)
OrthologyTypeMap ==
    /\ Enter("orthology_type_map")
    /\ Return("orthology_type_map", fs)
    /\ UNCHANGED << cls, gate, args, temp_files, created, selfVars, records, time_marks, rcs,
                    cesarVars, warned >>

\* __merge_dir(dir_name, output) on file system f when the directory is not
\* empty: the merged file is written and the directory removed
MergeDir(f, dir_name, output) == Remove(Create(f, {output}), {dir_name})

\* __merge_split_files (lines 810-820): three __merge_dir calls; an empty
\* directory ends the process with sys.exit(message). The rejected directory
\* holds the classifier's rejection log (classify_chains.py lines 202-206).
MergeSplitFiles ==
    /\ Enter("merge_split_files")
    /\ \E loss_empty \in BOOLEAN, results_empty \in BOOLEAN :
          LET f1 == MergeDir(fs, rejected_dir, rejected_log)
              f2 == MergeDir(f1, gene_loss_data, inact_mut_file)
              f3 == MergeDir(f2, cesar_results, cesar_results_merged)
          IN  IF loss_empty \/ results_empty
              THEN /\ fs' = IF loss_empty THEN f1 ELSE f2
                   /\ created' = created \cup {p \in Paths : fs'[p] # "absent"}
                   /\ stderr_msg' = "Error! directory is empty"
                   /\ exit_via' = "sys_exit"
                   /\ exit_status' = 1
                   /\ pc' = "exited"
                   /\ UNCHANGED << returned, die_rc, cleanups >>
              ELSE /\ created' = created \cup {p \in Paths : f3[p] # "absent"}
                   /\ Return("merge_split_files", f3)
    /\ UNCHANGED << cls, gate, args, temp_files, selfVars, records, time_marks, rcs, cesarVars, warned >>

\* line 484: if not self.cesar_ok_merged
WarnNever(ok) == FALSE

WarnNeeded(ok) == ok # "True"

\* lines 483-487: last time mark, the warning, die(rc=0)
RunEnd ==
    /\ pc = "run_end"
    /\ TimeMark("Everything is done")
    /\ warned' = WarnNeeded(cesar_ok_merged)
    /\ Die("Done! Estimated time", DoneRc, fs, temp_files)
    /\ UNCHANGED << cls, gate, args, temp_files, created, selfVars, records, started, returned,
                    rcs, cesarVars >>

Next ==
    \/ InitDependencies
    \/ InitNfConfig
    \/ InitChainFilter
    \/ InitFindTwoBit
    \/ InitCheckParamFiles
    \/ InitDump
    \/ MakeIndexedChain
    \/ MakeIndexedBed
    \/ SplitChainJobs
    \/ ExtractChainFeatures
    \/ MergeChainsOutput
    \/ ClassifyChains
    \/ SplitCesarJobs
    \/ RunCesarJobsBegin
    \/ PushBucket
    \/ ProcFinish
    \/ MonitorIter
    \/ MonitorWait
    \/ RunCesarJobsEnd
    \/ MergeCesarOutput
    \/ GeneLossSummary
    \/ OrthologyTypeMap
    \/ MergeSplitFiles
    \/ RunEnd

Spec == Init /\ [][Next]_vars

\* a run with the options that do not bear on the bucketer left off
InitLive ==
    /\ Init
    /\ ~args.keep_temp
    /\ ~args.stop_at_chain_class
    /\ ~args.time_marks
    /\ ~args.nextflow_config_dir
    /\ args.tDB_exists
    /\ args.qDB_exists

\* the steps of the controller process, those of the launched requests
\* (ProcFinish) left out
ControllerStep ==
    \/ InitDependencies
    \/ InitNfConfig
    \/ InitChainFilter
    \/ InitFindTwoBit
    \/ InitCheckParamFiles
    \/ InitDump
    \/ MakeIndexedChain
    \/ MakeIndexedBed
    \/ SplitChainJobs
    \/ ExtractChainFeatures
    \/ MergeChainsOutput
    \/ ClassifyChains
    \/ SplitCesarJobs
    \/ RunCesarJobsBegin
    \/ PushBucket
    \/ MonitorIter
    \/ MonitorWait
    \/ RunCesarJobsEnd
    \/ MergeCesarOutput
    \/ GeneLossSummary
    \/ OrthologyTypeMap
    \/ MergeSplitFiles
    \/ RunEnd

\* the controller is one sequential process that is never suspended: while
\* it has a next statement it executes it (time.sleep returns); nothing is
\* assumed about the launched requests
SpecLive == InitLive /\ [][Next]_vars /\ WF_vars(ControllerStep)

\* The runs with at most one declared bucket (--cesar_buckets with one value
\* or none); the flags and the presence of the 2bit files are left free.
InitRun == Init /\ Len(args.cesar_buckets) <= 1

SpecRun == InitRun /\ [][Next]_vars

\* ======================================================= classify_chains
\* lines 72-74: the mask of processed pseudogene rows
IsPPgeneHigherCut(r) == r.synt = 1 /\ r.cds_qlen > 97 /\ r.ex_num > 1

IsPPgene(r) == r.synt = 1 /\ r.cds_qlen > 95 /\ r.ex_num > 1

ChainsOf(rows) == [i \in DOMAIN rows |-> rows[i].chain]

\* lines 78-83: gene_to_pp_genes, chains appended in row order
PPgenesOf(d) ==
    [g \in Genes |-> ChainsOf(SelectSeq(d, LAMBDA r : IsPPgene(r) /\ r.gene = g))]

\* line 85: df.drop(p_pseudogenes)
DropPPgenesNot(d) == d

DropPPgenes(d) == SelectSeq(d, LAMBDA r : ~IsPPgene(r))

\* lines 94, 96: exon_cover > 0, then synt > 0
HardFilterNone(d) == d

HardFilterCoverOnly(d) == SelectSeq(d, LAMBDA r : r.exon_cover > 0)

HardFilter(d) ==
    SelectSeq(SelectSeq(d, LAMBDA r : r.exon_cover > 0), LAMBDA r : r.synt > 0)

\* lines 89-90: exon_cover == 0, then synt > 1
TransLinesAfterFilter(d) ==
    SelectSeq(SelectSeq(HardFilter(d), LAMBDA r : r.exon_cover = 0),
              LAMBDA r : r.synt > 1)

TransLines(d) ==
    SelectSeq(SelectSeq(d, LAMBDA r : r.exon_cover = 0), LAMBDA r : r.synt > 1)

\* lines 141-150: the columns gene, chain, pred of scored rows
Scored(rows, pred) ==
    [i \in DOMAIN rows |-> [gene |-> rows[i].gene, chain |-> rows[i].chain,
                            pred |-> pred[i]]]

\* line 155: a score as to_csv prints it, a sign, the digits before the
\* point and the digits after it (scores are kept in hundredths)
FloatTextUnsigned(v) ==
    LET a == IF v < 0 THEN 0 - v ELSE v
    IN  <<"", a \div 100, a % 100>>

FloatText(v) ==
    IF v < 0 THEN <<"-", (0 - v) \div 100, (0 - v) % 100>>
    ELSE <<"", v \div 100, v % 100>>

\* line 155: the data lines of the raw-score table, in the order of the rows;
\* the trans score -1 is -100 hundredths
ToCsv(rows) ==
    [k \in DOMAIN rows |->
        [gene |-> rows[k].gene, chain |-> rows[k].chain,
         pred |-> FloatText(IF rows[k].pred = -1 THEN -100 ELSE rows[k].pred)]]

\* lines 171-176: the list a scored row goes to
ClassOfInclusive(pred) ==
    IF pred = -1 THEN "TRANS"
    ELSE IF pred <= annot_threshold THEN "PARA"
    ELSE "ORTH"

ClassOf(pred) ==
    IF pred = -1 THEN "TRANS"
    ELSE IF pred < annot_threshold THEN "PARA"
    ELSE "ORTH"

\* lines 166-179: the loop over overall_result from row k on
RECURSIVE AggregateFrom(_, _, _, _)
AggregateFrom(rows, k, pp, acc) ==
    IF k > Len(rows) THEN acc
    ELSE LET data == rows[k]
             gene == data.gene
             a1 == [acc EXCEPT ![gene][ClassOf(data.pred)] = Append(@, data.chain)]
             a2 == IF pp[gene] # <<>>
                   THEN [a1 EXCEPT ![gene]["P_PGENES"] = pp[gene]]
                   ELSE a1
         IN  AggregateFrom(rows, k + 1, pp, a2)

\* lines 161-179
Aggregate(rows, pp) ==
    LET genes == {rows[i].gene : i \in DOMAIN rows}
    IN  AggregateFrom(rows, 1, pp,
                      [g \in genes |-> [ORTH |-> <<>>, PARA |-> <<>>,
                                        TRANS |-> <<>>, P_PGENES |-> <<>>]])

\* lines 191-194: ",".join(str(x) for x in l) if l else "0"; a field is the
\* sequence of its comma-separated tokens
Join(l) == IF l = <<>> THEN <<0>> ELSE l

\* lines 184-198: the data lines of the class table (the order of the lines
\* is that of a set of strings, so the lines are kept as a set)
ClassTable(gcc) ==
    {[GENE |-> k, ORTH |-> Join(gcc[k].ORTH), PARA |-> Join(gcc[k].PARA),
      TRANS |-> Join(gcc[k].TRANS), P_PGENES |-> Join(gcc[k].P_PGENES)] :
        k \in DOMAIN gcc}

\* line 200
GenesMissingAll(init, genes) == init

GenesMissing(init, genes) == init \ genes

\* lines 202-206
RejectedLines(missing) == {<<g, "No classifiable chains">> : g \in missing}

\* classify_chains is called on a feature table
InitCls ==
    /\ \E a \in ClsCalls, t \in Tables : cls = ClsEntered(a, t)
    /\ GateOff
    /\ args = [keep_temp |-> FALSE, stop_at_chain_class |-> FALSE,
               time_marks |-> FALSE, do_not_del_nf_logs |-> FALSE,
               nextflow_config_dir |-> FALSE, cesar_buckets |-> <<0>>,
               tDB_exists |-> TRUE, qDB_exists |-> TRUE]
    /\ pc = "classify_chains_py"
    /\ temp_files = <<>>
    /\ fs = [p \in Paths |-> "absent"]
    /\ created = {}
    /\ keep_temp = "unset"
    /\ local_executor = "unset"
    /\ t_2bit = "unset"
    /\ q_2bit = "unset"
    /\ cesar_ok_merged = "None"
    /\ records = {}
    /\ started = <<>>
    /\ returned = <<>>
    /\ time_marks = <<>>
    /\ rcs = [p \in SyncProcs |-> -1]
    /\ joblist = <<>>
    /\ jobfiles = [b \in BucketVals |-> <<>>]
    /\ buckets = <<>>
    /\ b_idx = 1
    /\ processes = <<>>
    /\ project_paths = <<>>
    /\ all_done = FALSE
    /\ stderr_msg = "none"
    /\ warned = FALSE
    /\ die_rc = -1
    /\ cleanups = 0
    /\ exit_via = "none"
    /\ exit_status = -1

\* lines 66-85: read the table, set the processed pseudogenes aside
ExtractPPgenes ==
    /\ cls_pc = "read_csv"
    /\ cls' = [cls EXCEPT
                 !.init_genes_set = {table[i].gene : i \in DOMAIN table},
                 !.gene_to_pp_genes = PPgenesOf(table),
                 !.df = DropPPgenes(table),
                 !.pc = "filter"]
    /\ UNCHANGED ctlVars

\* lines 116-117, 122-123: single_exon is 1 on the rows with ex_num == 1
SingleExonUpToTwo(r) == r.ex_num <= 2

SingleExon(r) == r.ex_num = 1

\* lines 86-125: trans chains aside, hard filter, split by exon number
FilterChains ==
    /\ cls_pc = "filter"
    /\ LET df_final == HardFilter(df)
       IN  cls' = [cls EXCEPT
                     !.trans_lines = TransLines(df),
                     !.df = df_final,
                     !.df_se = SelectSeq(df_final, LAMBDA r : SingleExon(r)),
                     !.df_me = SelectSeq(df_final, LAMBDA r : ~SingleExon(r)),
                     !.pc = "predict"]
    /\ UNCHANGED ctlVars

\* lines 127-206: score the rows, aggregate per gene, write the outputs
PredictAndWrite ==
    /\ cls_pc = "predict"
    /\ \E se_pred \in [DOMAIN df_se -> PredValues],
          me_pred \in [DOMAIN df_me -> PredValues] :
          LET result == Scored(df_se, se_pred) \o Scored(df_me, me_pred)
                           \o Scored(trans_lines, [i \in DOMAIN trans_lines |-> -1])
              gcc == Aggregate(result, gene_to_pp_genes)
              genes_missing == GenesMissing(init_genes_set, DOMAIN gcc)
          IN  cls' = [cls EXCEPT
                        !.overall_result = result,
                        !.raw_out_file =
                            IF cls_args.raw_out
                            THEN [written |-> TRUE, lines |-> ToCsv(result)]
                            ELSE @,
                        !.gene_class_chains = gcc,
                        !.output_file = [written |-> TRUE, lines |-> ClassTable(gcc)],
                        !.rejected_file =
                            IF cls_args.rejected
                            THEN [written |-> TRUE, lines |-> RejectedLines(genes_missing)]
                            ELSE @,
                        !.pc = "done"]
    /\ UNCHANGED ctlVars

NextCls ==
    \/ ExtractPPgenes
    \/ FilterChains
    \/ PredictAndWrite

SpecClassify == InitCls /\ [][NextCls]_vars

\* ================================= classify_chains, the derived features
\* a float of a pandas column: a finite number in hundredths, an infinity with
\* its sign, or NaN
Num(n) == <<"num", n>>
PosInf == <<"inf", 1>>
NegInf == <<"inf", -1>>
NaN == <<"nan", 0>>
IsFinite(v) == v[1] = "num"

MaxFeatRows == 1
FractVals == {0, 50}
IntrCoverVals == {0, 60}
ChainLenVals == {0, 1000}
ExNumVals == {1, 2}

\* the columns of a feature row that lines 94-111 read (gl_exo, loc_exo and
\* flank_cov are handed to the models as read and are left out)
FeatRows ==
    [synt : {0, 1, 10}, exon_cover : ExonCoverVals, ex_fract : FractVals,
     intr_cover : IntrCoverVals, intr_fract : FractVals,
     chain_len : ChainLenVals, ex_num : ExNumVals]

\* lines 105, 108: Series / Series, x/0 is an infinity and 0/0 is NaN
Divide(a, b) ==
    IF b # 0 THEN Num((a * 100) \div b)
    ELSE IF a = 0 THEN NaN
    ELSE PosInf

\* lines 106, 107: numpy log10 on the values the columns take, log10(0) is
\* minus infinity
Log10(x) ==
    CASE x = 0 -> NegInf
      [] x = 1 -> Num(0)
      [] x = 10 -> Num(100)
      [] x = 1000 -> Num(300)

\* line 111: fillna(0.0) replaces NaN and nothing else
FillNa(v) == IF v = NaN THEN Num(0) ELSE v

\* lines 105-111 on one row
Derived(r) ==
    [synt |-> r.synt, exon_cover |-> r.exon_cover, ex_fract |-> r.ex_fract,
     intr_cover |-> r.intr_cover, intr_fract |-> r.intr_fract,
     chain_len |-> r.chain_len, ex_num |-> r.ex_num,
     exon_perc |-> FillNa(Divide(r.exon_cover, r.ex_fract)),
     chain_len_log |-> FillNa(Log10(r.chain_len)),
     synt_log |-> FillNa(Log10(r.synt)),
     intr_perc |-> FillNa(Divide(r.intr_cover, r.intr_fract))]

\* lines 32-33, 125-128: the derived columns among the features of each model
SE_MODEL_FEATURES(r) == [exon_perc |-> r.exon_perc, synt_log |-> r.synt_log]
ME_MODEL_FEATURES(r) == [synt_log |-> r.synt_log, intr_perc |-> r.intr_perc]

X_se == cls.X_se
X_me == cls.X_me
df_final == cls.df_final

\* the values handed to the two models
FeatureValues ==
    UNION {{X_se[i].exon_perc, X_se[i].synt_log} : i \in DOMAIN X_se}
       \cup UNION {{X_me[i].synt_log, X_me[i].intr_perc} : i \in DOMAIN X_me}

\* classify_chains has read a table and dropped the processed pseudogenes
InitFeatures ==
    /\ \E t \in SeqsUpTo(FeatRows, MaxFeatRows) :
          cls = [pc |-> "feat_filter", df |-> t, df_final |-> <<>>,
                 X_se |-> <<>>, X_me |-> <<>>]
    /\ GateOff
    /\ args = [keep_temp |-> FALSE, stop_at_chain_class |-> FALSE,
               time_marks |-> FALSE, do_not_del_nf_logs |-> FALSE,
               nextflow_config_dir |-> FALSE, cesar_buckets |-> <<0>>,
               tDB_exists |-> TRUE, qDB_exists |-> TRUE]
    /\ pc = "classify_chains_py"
    /\ temp_files = <<>>
    /\ fs = [p \in Paths |-> "absent"]
    /\ created = {}
    /\ keep_temp = "unset"
    /\ local_executor = "unset"
    /\ t_2bit = "unset"
    /\ q_2bit = "unset"
    /\ cesar_ok_merged = "None"
    /\ records = {}
    /\ started = <<>>
    /\ returned = <<>>
    /\ time_marks = <<>>
    /\ rcs = [p \in SyncProcs |-> -1]
    /\ joblist = <<>>
    /\ jobfiles = [b \in BucketVals |-> <<>>]
    /\ buckets = <<>>
    /\ b_idx = 1
    /\ processes = <<>>
    /\ project_paths = <<>>
    /\ all_done = FALSE
    /\ stderr_msg = "none"
    /\ warned = FALSE
    /\ die_rc = -1
    /\ cleanups = 0
    /\ exit_via = "none"
    /\ exit_status = -1

\* lines 94, 96
FeatHardFilter ==
    /\ cls_pc = "feat_filter"
    /\ cls' = [cls EXCEPT !.df = HardFilter(df), !.pc = "feat_derive"]
    /\ UNCHANGED ctlVars

\* lines 103-111
DeriveFeatures ==
    /\ cls_pc = "feat_derive"
    /\ cls' = [cls EXCEPT !.df_final = [i \in DOMAIN df |-> Derived(df[i])],
                          !.pc = "feat_split"]
    /\ UNCHANGED ctlVars

\* lines 113-128
SplitFeatures ==
    /\ cls_pc = "feat_split"
    /\ LET se == SelectSeq(df_final, LAMBDA r : r.ex_num = 1)
           me == SelectSeq(df_final, LAMBDA r : r.ex_num # 1)
       IN  cls' = [cls EXCEPT
                     !.X_se = [i \in DOMAIN se |-> SE_MODEL_FEATURES(se[i])],
                     !.X_me = [i \in DOMAIN me |-> ME_MODEL_FEATURES(me[i])],
                     !.pc = "feat_predict"]
    /\ UNCHANGED ctlVars

\* lines 135-136: predict_proba is library code; on finite features it
\* returns, on a feature that is not finite it returns or raises
PredictProba ==
    /\ cls_pc = "feat_predict"
    /\ \E raised \in BOOLEAN :
          /\ raised => \E v \in FeatureValues : ~IsFinite(v)
          /\ cls' = [cls EXCEPT !.pc = IF raised THEN "feat_raised"
                                       ELSE "feat_scored"]
    /\ UNCHANGED ctlVars

NextFeatures ==
    \/ FeatHardFilter
    \/ DeriveFeatures
    \/ SplitFeatures
    \/ PredictProba

SpecFeatures == InitFeatures /\ [][NextFeatures]_vars

\* ===================================================== __check_param_files
MaxU12Lines == 2
MaxIsoLines == 2
U12_FILE_COLS == 3
U12_AD_FIELD == {"A", "D"}
ISOFORMS_FILE_COLS == 2

Transcripts == {"T1", "T2"}
Chroms == {"chr1", "chr2"}

\* lines 190-193: a line of the filtered annotation, its chromosome x[0] and
\* its transcript x[3]; the annotation is read into two sets
BedLines == {<<"chr1", "T1">>, <<"chr2", "T2">>}
Beds == SUBSET BedLines

\* a line of a text file is the sequence of its tab-separated cells;
\* line.rstrip() removes the empty cells at its end
RECURSIVE RStrip(_)
RStrip(line) ==
    IF line # <<>> /\ line[Len(line)] = ""
    THEN RStrip(SubSeq(line, 1, Len(line) - 1))
    ELSE line

\* line.rstrip().split("\t"): a line without characters gives one empty field
Fields(line) == IF RStrip(line) = <<>> THEN <<"">> ELSE RStrip(line)

\* str.isnumeric() on the cells used
IsNumeric(cell) == cell \in {"5"}

\* the optional file arguments: not given, a path that does not exist, a file
FileArgs == {"none", "missing", "file"}

U12Lines ==
    {<<t, e, a>> : t \in Transcripts, e \in {"5", "x"}, a \in {"A", "D", "X"}}
       \cup {<<"T1", "5">>, <<"T1", "5", "A", "">>, <<"T1", "5", "A", "x">>}
U12Files == SeqsUpTo(U12Lines, MaxU12Lines)

IsoformsLines ==
    {<<"g", "T1">>, <<"g", "T2">>, <<"g">>, <<"g", "T1", "">>, <<"g", "T1", "x">>}
IsoformsHeaders == {<<"GeneID", "TranscriptID">>, <<"header">>, <<"g", "T1">>}
IsoformsFiles ==
    {<<>>} \cup {<<h>> \o t : h \in IsoformsHeaders,
                              t \in SeqsUpTo(IsoformsLines, MaxIsoLines)}

NoCopy == [written |-> FALSE, lines |-> <<>>]

\* __check_param_files is entered: lines 159-160 have set u12_arg and u12
GateEntered(u, i) ==
    [u12_arg |-> u, isoforms_arg |-> i, u12 |-> "None", isoforms |-> "None",
     at |-> "none", read |-> <<>>, t_in_bed |-> {}, chroms_in_bed |-> {},
     u12_copy |-> NoCopy, isoforms_copy |-> NoCopy]

\* an exception nothing catches: traceback, exit status 1, die not called
Uncaught ==
    /\ stderr_msg' = "traceback"
    /\ exit_via' = "exception"
    /\ exit_status' = 1
    /\ pc' = "exited"
    /\ UNCHANGED << fs, die_rc, cleanups >>

\* lines 238-259: the loop over the lines of the U12 file from line k on;
\* err names the die call reached, filt_lines is the list built so far
RECURSIVE U12Scan(_, _, _, _)
U12Scan(lines, k, t_in_bed, filt_lines) ==
    IF k > Len(lines) THEN [err |-> "none", filt_lines |-> filt_lines]
    ELSE LET line_data == Fields(lines[k])
         IN  IF Len(line_data) # U12_FILE_COLS
             THEN [err |-> "Error! U12 file is corrupted, 3 fields expected",
                   filt_lines |-> filt_lines]
             ELSE IF line_data[1] \notin t_in_bed
             THEN U12Scan(lines, k + 1, t_in_bed, filt_lines)
             ELSE IF ~IsNumeric(line_data[2])
             THEN [err |-> "Error! U12 file is corrupted, field 2 must be numeric",
                   filt_lines |-> filt_lines]
             ELSE IF line_data[3] \notin U12_AD_FIELD
             THEN [err |-> "Error! U12 file is corrupted, field 3 must be A or D",
                   filt_lines |-> filt_lines]
             ELSE U12Scan(lines, k + 1, t_in_bed, Append(filt_lines, lines[k]))

\* lines 238-265: the die call __check_u12_file reaches on a file, if any
U12Check(lines, t_in_bed) ==
    LET r == U12Scan(lines, 1, t_in_bed, <<>>)
    IN  IF r.err # "none" THEN r
        ELSE IF Len(r.filt_lines) = 0
        THEN [err |-> "Error! No lines left in the U12 file after filter.",
              filt_lines |-> <<>>]
        ELSE r

\* lines 281-295: the loop over the lines after the header
RECURSIVE IsoformsScan(_, _, _, _, _)
IsoformsScan(lines, k, t_in_bed, filt_isoforms_lines, t_in_i) ==
    IF k > Len(lines)
    THEN [err |-> "none", filt_isoforms_lines |-> filt_isoforms_lines,
          t_in_i |-> t_in_i]
    ELSE LET line_data == Fields(lines[k])
         IN  IF Len(line_data) # ISOFORMS_FILE_COLS
             THEN [err |-> "Error! Isoforms file: Expected 2 fields",
                   filt_isoforms_lines |-> filt_isoforms_lines, t_in_i |-> t_in_i]
             ELSE IF line_data[2] \in t_in_bed
             THEN IsoformsScan(lines, k + 1, t_in_bed,
                               Append(filt_isoforms_lines, lines[k]),
                               t_in_i \cup {line_data[2]})
             ELSE IsoformsScan(lines, k + 1, t_in_bed, filt_isoforms_lines, t_in_i)

\* line 299: the annotation transcripts the isoforms file has to name
MustBeNamedNone(t_in_bed) == {}

MustBeNamed(t_in_bed) == t_in_bed

\* lines 277-305 on a file with a first line
IsoformsCheck(lines, t_in_bed) ==
    LET r == IsoformsScan(Tail(lines), 1, t_in_bed, <<lines[1]>>, {})
    IN  IF r.err # "none" THEN r
        ELSE IF MustBeNamed(t_in_bed) \ r.t_in_i # {}
        THEN [r EXCEPT !.err = "Error! There are transcripts in the bed file absent in the isoforms file!"]
        ELSE r

\* line 225: the sequence names and the reference names share a name
NamesMatchAll(sequences, chroms) == chroms \subseteq sequences

NamesMatch(sequences, chroms) == sequences \cap chroms # {}

\* lines 214-226: the die call __check_2bit_file reaches; the reader either
\* returns the sequence names or raises EOFError
TwoBitCheck(parsed, sequences, chroms) ==
    IF ~parsed THEN "Abort"
    ELSE IF ~NamesMatch(sequences, chroms)
    THEN "Error! 2bit chromosomes|scaffold names dont match names in bed|chain file!"
    ELSE "none"

\* what the reader makes of a 2bit file
TwoBitReads ==
    {[parsed |-> FALSE, sequences |-> {}]}
       \cup {[parsed |-> TRUE, sequences |-> q] : q \in SUBSET Chroms}

\* __init__ has reached line 59 with a U12 and an isoforms argument
InitGate ==
    /\ ClsOff
    /\ \E u \in FileArgs, i \in FileArgs : gate = GateEntered(u, i)
    /\ \E t, q \in BOOLEAN :
          args = [keep_temp |-> FALSE, stop_at_chain_class |-> FALSE,
                  time_marks |-> FALSE, do_not_del_nf_logs |-> FALSE,
                  nextflow_config_dir |-> FALSE, cesar_buckets |-> <<0>>,
                  tDB_exists |-> t, qDB_exists |-> q]
    /\ pc = "init_chain_filter"
    /\ temp_files = <<>>
    /\ fs = [p \in Paths |-> "absent"]
    /\ created = {}
    /\ keep_temp = "unset"
    /\ local_executor = "True"
    /\ t_2bit = "unset"
    /\ q_2bit = "unset"
    /\ cesar_ok_merged = "None"
    /\ records = {}
    /\ started = <<>>
    /\ returned = <<>>
    /\ time_marks = <<>>
    /\ rcs = [p \in SyncProcs |-> -1]
    /\ joblist = <<>>
    /\ jobfiles = [b \in BucketVals |-> <<>>]
    /\ buckets = <<>>
    /\ b_idx = 1
    /\ processes = <<>>
    /\ project_paths = <<>>
    /\ all_done = FALSE
    /\ stderr_msg = "none"
    /\ warned = FALSE
    /\ die_rc = -1
    /\ cleanups = 0
    /\ exit_via = "none"
    /\ exit_status = -1

gateFrame == << cls, args, temp_files, created, selfVars, records, started,
                returned, time_marks, rcs, cesarVars, warned >>

\* lines 175-187: the loop over files_to_check; self.u12 is None here and is
\* skipped, the 2bit paths are those __find_two_bit found
CheckFilesExist ==
    /\ pc = "init_check_param_files"
    /\ \E cesar_binary_exists, ref_bed_exists \in BOOLEAN :
          /\ gate' = [gate EXCEPT !.at = "exist",
                                  !.read = [cesar_binary |-> cesar_binary_exists,
                                            ref_bed |-> ref_bed_exists]]
          /\ IF \/ ~cesar_binary_exists
                \/ ~ref_bed_exists
                \/ fs[chain_file] = "absent"
                \/ gate.isoforms_arg = "missing"
             THEN Die("Error! File not found!", DefaultRc, fs, temp_files)
             ELSE pc' = "gate_read_bed" /\ UNCHANGED << fs, exitVars >>
    /\ UNCHANGED gateFrame

\* lines 190-193
ReadRefBed ==
    /\ pc = "gate_read_bed"
    /\ \E bed \in Beds :
          gate' = [gate EXCEPT !.at = "bed", !.read = bed,
                               !.t_in_bed = {x[2] : x \in bed},
                               !.chroms_in_bed = {x[1] : x \in bed}]
    /\ pc' = "gate_isoforms"
    /\ UNCHANGED << fs, exitVars >>
    /\ UNCHANGED gateFrame

\* __check_isoforms_file (lines 269-309); next() on a file without a line
\* raises StopIteration
CheckIsoformsFile ==
    /\ pc = "gate_isoforms"
    /\ IF gate.isoforms_arg = "none"
       THEN /\ gate' = [gate EXCEPT !.at = "isoforms", !.read = <<>>]
            /\ pc' = "gate_u12"
            /\ UNCHANGED << fs, exitVars >>
       ELSE \E file \in IsoformsFiles :
               IF file = <<>>
               THEN /\ gate' = [gate EXCEPT !.at = "isoforms", !.read = file,
                                            !.isoforms = "path"]
                    /\ Uncaught
               ELSE LET r == IsoformsCheck(file, gate.t_in_bed)
                    IN  IF r.err # "none"
                        THEN /\ gate' = [gate EXCEPT !.at = "isoforms", !.read = file,
                                                     !.isoforms = "path"]
                             /\ Die(r.err, DefaultRc, fs, temp_files)
                        ELSE /\ gate' = [gate EXCEPT
                                           !.at = "isoforms", !.read = file,
                                           !.isoforms = "path",
                                           !.isoforms_copy =
                                               [written |-> TRUE,
                                                lines |-> r.filt_isoforms_lines]]
                             /\ pc' = "gate_u12"
                             /\ UNCHANGED << fs, exitVars >>
    /\ UNCHANGED gateFrame

\* __check_u12_file (lines 229-267); open() on a path that does not exist
\* raises FileNotFoundError
CheckU12File ==
    /\ pc = "gate_u12"
    /\ IF gate.u12_arg = "none"
       THEN /\ gate' = [gate EXCEPT !.at = "u12", !.read = <<>>]
            /\ pc' = "gate_t_2bit"
            /\ UNCHANGED << fs, exitVars >>
       ELSE IF gate.u12_arg = "missing"
       THEN /\ gate' = [gate EXCEPT !.at = "u12", !.read = <<>>, !.u12 = "path"]
            /\ Uncaught
       ELSE \E file \in U12Files :
               LET r == U12Check(file, gate.t_in_bed)
               IN  IF r.err # "none"
                   THEN /\ gate' = [gate EXCEPT !.at = "u12", !.read = file,
                                                !.u12 = "path"]
                        /\ Die(r.err, DefaultRc, fs, temp_files)
                   ELSE /\ gate' = [gate EXCEPT
                                      !.at = "u12", !.read = file, !.u12 = "path",
                                      !.u12_copy = [written |-> TRUE,
                                                    lines |-> r.filt_lines]]
                        /\ pc' = "gate_t_2bit"
                        /\ UNCHANGED << fs, exitVars >>
    /\ UNCHANGED gateFrame

\* line 196: __check_2bit_file(self.t_2bit, chroms_in_bed)
CheckRef2bitFile ==
    /\ pc = "gate_t_2bit"
    /\ \E two_bit \in TwoBitReads :
          LET err == TwoBitCheck(two_bit.parsed, two_bit.sequences,
                                 gate.chroms_in_bed)
          IN  /\ gate' = [gate EXCEPT
                            !.at = "t_2bit",
                            !.read = [parsed |-> two_bit.parsed,
                                      sequences |-> two_bit.sequences,
                                      chroms |-> gate.chroms_in_bed]]
              /\ IF err # "none"
                 THEN Die(err, DefaultRc, fs, temp_files)
                 ELSE pc' = "gate_q_2bit" /\ UNCHANGED << fs, exitVars >>
    /\ UNCHANGED gateFrame

\* lines 198-200: the query names of the chain file, then
\* __check_2bit_file(self.q_2bit, q_chrom_in_chain)
CheckQuery2bitFile ==
    /\ pc = "gate_q_2bit"
    /\ \E two_bit \in TwoBitReads, q_chrom_in_chain \in SUBSET Chroms :
          LET err == TwoBitCheck(two_bit.parsed, two_bit.sequences,
                                 q_chrom_in_chain)
          IN  /\ gate' = [gate EXCEPT
                            !.at = "q_2bit",
                            !.read = [parsed |-> two_bit.parsed,
                                      sequences |-> two_bit.sequences,
                                      chroms |-> q_chrom_in_chain]]
              /\ IF err # "none"
                 THEN Die(err, DefaultRc, fs, temp_files)
                 ELSE pc' = "init_dump" /\ UNCHANGED << fs, exitVars >>
    /\ UNCHANGED gateFrame

NextGate ==
    \/ InitChainFilter
    \/ InitFindTwoBit
    \/ CheckFilesExist
    \/ ReadRefBed
    \/ CheckIsoformsFile
    \/ CheckU12File
    \/ CheckRef2bitFile
    \/ CheckQuery2bitFile
    \/ InitDump

SpecGate == InitGate /\ [][NextGate]_vars

\* ================================================================ claims
\* the stage order as the specification lists it
ClaimedOrder ==
    << "make_indexed_chain", "make_indexed_bed", "split_chain_jobs",
       "extract_chain_features", "merge_chains_output", "classify_chains",
       "split_cesar_jobs", "run_cesar_jobs", "merge_cesar_output",
       "gene_loss_summary", "orthology_type_map", "merge_split_files" >>

IsPrefix(s, t) == Len(s) <= Len(t) /\ \A i \in DOMAIN s : s[i] = t[i]

TempGone == \A i \in DOMAIN temp_files : fs[temp_files[i]] = "absent"

AllFinished == \A i \in DOMAIN processes : ~Running(processes[i])

\* C1: the stages of run() start in the fixed order of the specification, a
\* stage starts only when every stage before it has returned, no stage
\* starts twice, and a run that gets past the last stage has run them all.
C1_StageOrder ==
    /\ IsPrefix(started, ClaimedOrder)
    /\ IsPrefix(returned, started)
    /\ Len(started) <= Len(returned) + 1
    /\ (Len(started) > Len(returned) /\ pc # "exited")
          => pc \in {started[Len(started)], "push", "monitor", "polled"}
    /\ (Len(started) = Len(returned) /\ pc # "exited" /\ started # <<>>)
          => pc = (IF Len(started) = Len(ClaimedOrder) THEN "run_end"
                   ELSE ClaimedOrder[Len(started) + 1])
    /\ pc = "run_end" => returned = ClaimedOrder

C1_Witness ==
    /\ pc = "exited"
    /\ stderr_msg = "Done! Estimated time"
    /\ started = ClaimedOrder
    /\ returned = ClaimedOrder

\* the stage in which a synchronous sub-process is called (0: in __init__)
StageOfProc(p) ==
    CASE p = "chain_filter" -> 0
      [] p = "split_chain_jobs" -> 3
      [] p = "nextflow_chain_feats" -> 4
      [] p = "split_cesar_jobs" -> 7

TerminalError(lastStage) ==
    /\ pc = "exited"
    /\ exit_status > 0
    /\ cleanups = 1
    /\ Len(started) = lastStage

\* C2 (as claimed): a non-zero exit status of any external process of a
\* stage, a realignment bucket request included, puts the controller in the
\* terminal error state: cleanup done, non-zero exit, no later stage started.
C2_Original ==
    /\ \A p \in {"chain_filter", "split_chain_jobs", "nextflow_chain_feats",
                  "split_cesar_jobs"} :
          rcs[p] > 0 => TerminalError(StageOfProc(p))
    /\ \A i \in DOMAIN processes :
          processes[i].returncode > 0
             => /\ Len(started) = 8
                /\ pc = "exited" => (exit_status > 0 /\ cleanups = 1)

\* C2 (amended): a non-zero exit status of a sub-process the controller
\* waits for (chain score filter, both job partitioners, the feature
\* extraction backend run) ends the run through die: cleanup done once,
\* exit status 1, temp artifacts removed unless kept, no later stage started.
C2_SyncProcFatal ==
    \A p \in {"chain_filter", "split_chain_jobs", "nextflow_chain_feats",
               "split_cesar_jobs"} :
       rcs[p] > 0 => /\ TerminalError(StageOfProc(p))
                     /\ exit_via = "die"
                     /\ exit_status = 1
                     /\ Len(returned) = Len(started) - (IF StageOfProc(p) = 0 THEN 0 ELSE 1)
                     /\ ~args.keep_temp => TempGone

C2_Witness ==
    /\ pc = "exited"
    /\ rcs["split_cesar_jobs"] = 2
    /\ keep_temp = "False"
    /\ cesar_jobs_dir \in created
    /\ Len(temp_files) >= 10

\* C3: when die is reached and the user did not ask to keep temp artifacts,
\* nothing recorded in temp_files exists any more at exit, and the exit
\* status is the rc passed to die.
C3_DieRemovesTemp ==
    (exit_via = "die" /\ ~args.keep_temp)
       => /\ pc = "exited"
          /\ TempGone
          /\ exit_status = die_rc

C3_Witness ==
    /\ exit_via = "die"
    /\ ~args.keep_temp
    /\ die_rc = 1
    /\ {chain_file, ch_cl_jobs, chain_class_results} \subseteq created
    /\ {chain_file, ch_cl_jobs, chain_class_results} \subseteq Range(temp_files)

\* C4 (as claimed): with keep_temp no artifact recorded in temp_files is ever
\* deleted: every recorded artifact that was created still exists.
C4_KeepTempKeepsAll ==
    args.keep_temp
       => \A i \in DOMAIN temp_files :
             temp_files[i] \in created => fs[temp_files[i]] # "absent"

\* C5 (as claimed): every exit the controller takes on its own (a message
\* and an exit status, uncaught exceptions aside) goes through die, with the
\* temp-artifact cleanup executed exactly once before the process exits.
C5_AllExitsThroughDie ==
    (pc = "exited" /\ exit_via # "exception")
       => (exit_via = "die" /\ cleanups = 1)

\* the user-requested early stop was taken: classification was the last
\* stage entered and it got past the model check
EarlyStop ==
    /\ args.stop_at_chain_class
    /\ Len(started) = 6
    /\ rcs["model_trainer"] <= 0

\* C6: a run that terminates exits with status 0 or 1; 0 exactly when it got
\* to the end of the last stage or took the user-requested early stop, else
\* 1, and then a diagnostic was written to the error stream.
C6_ExitStatus ==
    pc = "exited"
       => /\ exit_status \in {0, 1}
          /\ exit_status = 0 <=> (returned = ClaimedOrder \/ EarlyStop)
          /\ exit_status = 1 => stderr_msg # "none"

C6_Witness ==
    /\ pc = "exited"
    /\ rcs["split_chain_jobs"] = 2
    /\ exit_status = 1
    /\ stderr_msg = "Error! Process died! Abort."

OtherFailure ==
    \/ \E p \in SyncProcs : rcs[p] > 0
    \/ stderr_msg \in {"Error! File not found!", "Error! Nextflow config not found!",
                        "Error! File doesn't exist!", "Error! Validation failed"}

Pushed ==
    IF pc = "push" THEN SubSeq(buckets, 1, b_idx - 1) ELSE buckets

\* job lines carrying the tag of memory class b, as the claims count them
LinesOf(b) == {i \in DOMAIN joblist : joblist[i] = b}

\* __run_cesar_jobs is over: it returned, or the process ended inside it
BucketerOver ==
    \/ Len(returned) >= 8
    \/ (Len(started) = 8 /\ pc = "exited")

NonEmptyEntries ==
    SelectSeq(Pushed, LAMBDA b : b = 0 \/ LinesOf(b) # {})

Submissions(n) ==
    Cardinality({i \in DOMAIN processes : processes[i].q = joblist[n]})

\* the push loop is over for a list of memory classes whose tags are those
\* of the job list
MultiBucketPushed ==
    /\ Len(started) >= 8
    /\ pc # "push"
    /\ buckets # <<0>>
    /\ Range(buckets) = Range(joblist)

OneRowPerPair ==
    \A i, j \in DOMAIN table :
       (table[i].gene = table[j].gene /\ table[i].chain = table[j].chain) => i = j

\* a processed pseudogene row, as the claims describe it
PseudogeneRow(r) == r.synt = 1 /\ r.cds_qlen > 95 /\ r.ex_num > 1

\* a trans row, as the claims describe it
TransRow(r) == r.exon_cover = 0 /\ r.synt > 1 /\ ~PseudogeneRow(r)

\* a row that is given a score
ScorableRow(r) == r.exon_cover > 0 /\ r.synt > 0 /\ ~PseudogeneRow(r)

RowsOfGene(g) == {i \in DOMAIN table : table[i].gene = g}

\* the genes with a line in the class table, in the rejected log
GenesInClassTable == {l.GENE : l \in output_file.lines}
GenesInRejectedLog == {l[1] : l \in rejected_file.lines}

\* C16: every processed pseudogene row has its chain in P_PGENES of its
\* gene's line of the class table and in no other list of that line, also
\* when the row is the gene's only row (the other three fields being "0").
C16_PseudogeneListed ==
    (cls_pc = "done" /\ OneRowPerPair)
       => \A i \in DOMAIN table :
             PseudogeneRow(table[i])
                => \E l \in output_file.lines :
                      /\ l.GENE = table[i].gene
                      /\ table[i].chain \in Range(l.P_PGENES)
                      /\ table[i].chain \notin
                            Range(l.ORTH) \cup Range(l.PARA) \cup Range(l.TRANS)
                      /\ Cardinality(RowsOfGene(table[i].gene)) = 1
                            => l.ORTH = <<0>> /\ l.PARA = <<0>> /\ l.TRANS = <<0>>

\* C17: every trans row has its chain in TRANS of its gene, stands in the
\* raw-score table (when one is written) with the score -1, and is handed to
\* neither model.
C17_TransRows ==
    cls_pc = "done"
       => \A i \in DOMAIN table :
             TransRow(table[i])
                => /\ \E l \in output_file.lines :
                         l.GENE = table[i].gene /\ table[i].chain \in Range(l.TRANS)
                   /\ cls_args.raw_out
                         => /\ raw_out_file.written
                            /\ [gene |-> table[i].gene, chain |-> table[i].chain,
                                 pred |-> <<"-", 1, 0>>]
                                  \in Range(raw_out_file.lines)
                   /\ table[i] \notin Range(df_se) \cup Range(df_me)

C17_Witness ==
    /\ cls_pc = "done"
    /\ raw_out_file.written
    /\ Len(table) = 2
    /\ TransRow(table[1])
    /\ ScorableRow(table[2])
    /\ table[2].gene = table[1].gene
    /\ \E l \in output_file.lines : l.TRANS = <<1>> /\ l.ORTH = <<2>>

\* C18: for a table with one row per chain-gene pair, no chain stands in two
\* of a gene's four lists nor twice in one of them.
C18_ListsDisjoint ==
    (cls_pc = "done" /\ OneRowPerPair)
       => \A g \in DOMAIN gene_class_chains :
             LET all == gene_class_chains[g].ORTH \o gene_class_chains[g].PARA
                           \o gene_class_chains[g].TRANS
                           \o gene_class_chains[g].P_PGENES
             IN  \A i, j \in DOMAIN all : all[i] = all[j] => i = j

C18_Witness ==
    /\ cls_pc = "done"
    /\ OneRowPerPair
    /\ Len(table) = 2
    /\ "G1" \in DOMAIN gene_class_chains
    /\ gene_class_chains["G1"].P_PGENES # <<>>
    /\ gene_class_chains["G1"].ORTH \o gene_class_chains["G1"].PARA
          \o gene_class_chains["G1"].TRANS # <<>>

\* C19: when the rejected log is asked for, every gene of the input table
\* is in the class table or in the rejected log, and in one of them only.
C19_GenePartition ==
    (cls_pc = "done" /\ cls_args.rejected)
       => /\ rejected_file.written
          /\ \A i \in DOMAIN table :
                (table[i].gene \in GenesInClassTable)
                   # (table[i].gene \in GenesInRejectedLog)

C19_Witness ==
    /\ cls_pc = "done"
    /\ cls_args.rejected
    /\ RowsOfGene("G1") # {}
    /\ RowsOfGene("G2") # {}
    /\ GenesInClassTable = {"G1"}
    /\ GenesInRejectedLog = {"G2"}

ScoredOf(g) == SelectSeq(overall_result, LAMBDA r : r.gene = g /\ r.pred # -1)

DerivedValues(r) == {r.exon_perc, r.chain_len_log, r.synt_log, r.intr_perc}

\* C22: for every row that survives filtering the exon-coverage-percentage is
\* exon_cover / ex_fract, every derived value that is undefined (a division
\* by zero, a logarithm of zero) is 0.0, the features handed to the models
\* hold no undefined or infinite value, and no error is raised.
C22_FeaturesDefined ==
    /\ cls_pc \in {"feat_split", "feat_predict", "feat_scored", "feat_raised"}
          => \A i \in DOMAIN df_final :
                LET r == df_final[i]
                IN  /\ r.exon_perc = IF r.ex_fract = 0 THEN Num(0)
                                     ELSE Num((r.exon_cover * 100) \div r.ex_fract)
                    /\ r.intr_fract = 0 => r.intr_perc = Num(0)
                    /\ r.chain_len = 0 => r.chain_len_log = Num(0)
                    /\ \A v \in DerivedValues(r) : IsFinite(v)
    /\ cls_pc \in {"feat_predict", "feat_scored", "feat_raised"}
          => \A v \in FeatureValues : IsFinite(v)
    /\ cls_pc # "feat_raised"

\* a printed score read back as a number of hundredths
ParseFloat(t) ==
    IF t[1] = "-" THEN 0 - (t[2] * 100 + t[3]) ELSE t[2] * 100 + t[3]

\* the raw-score table read back, its rows with a score other than -1
RawScored ==
    SelectSeq([k \in DOMAIN raw_out_file.lines |->
                  [gene |-> raw_out_file.lines[k].gene,
                   chain |-> raw_out_file.lines[k].chain,
                   pred |-> ParseFloat(raw_out_file.lines[k].pred)]],
              LAMBDA r : r.pred # -100)

\* the per-gene lists the loop of lines 166-176 builds from RawScored
Rethresholded == Aggregate(RawScored, [g \in Genes |-> <<>>])

SamePair(i) ==
    {j \in DOMAIN table :
        table[j].gene = table[i].gene /\ table[j].chain = table[i].chain}

\* the chain-gene pair of row i of the feature table is in the raw scores
InRawScores(i) ==
    \/ \E k \in DOMAIN overall_result :
          /\ overall_result[k].gene = table[i].gene
          /\ overall_result[k].chain = table[i].chain
    \/ \E k \in DOMAIN raw_out_file.lines :
          /\ raw_out_file.lines[k].gene = table[i].gene
          /\ raw_out_file.lines[k].chain = table[i].chain

\* the chains in the lists named by fields of the gene of row i
ListedIn(i, fields) ==
    IF table[i].gene \in DOMAIN gene_class_chains
    THEN UNION {Range(gene_class_chains[table[i].gene][f]) : f \in fields}
    ELSE {}

\* C29: a processed pseudogene row is removed before any other step, also
\* when its exon_cover is 0: it is not among the rows the filters work on,
\* not among the trans rows, not handed to a model, and (no other row
\* carrying its chain-gene pair) its chain is in no row of the raw scores and
\* in none of ORTH, PARA and TRANS of its gene.
C29_PseudogenesRemovedFirst ==
    \A i \in DOMAIN table :
       PseudogeneRow(table[i])
          => /\ cls_pc \in {"filter", "predict", "done"}
                   => table[i] \notin Range(df)
             /\ cls_pc \in {"predict", "done"}
                   => table[i] \notin Range(df_se) \cup Range(df_me)
                                         \cup Range(trans_lines)
             /\ (cls_pc = "done" /\ \A j \in SamePair(i) : PseudogeneRow(table[j]))
                   => /\ ~InRawScores(i)
                      /\ table[i].chain \notin ListedIn(i, {"ORTH", "PARA", "TRANS"})

C29_Witness ==
    /\ cls_pc = "done"
    /\ raw_out_file.written
    /\ Len(table) = 2
    /\ PseudogeneRow(table[1])
    /\ table[1].exon_cover = 0
    /\ ScorableRow(table[2])
    /\ table[2].gene = table[1].gene
    /\ table[2].chain # table[1].chain
    /\ gene_class_chains[table[1].gene].P_PGENES = <<table[1].chain>>
    /\ Len(overall_result) = 1

\* a row the hard filter drops, as the claim describes it
HardFilteredRow(r) ==
    ~PseudogeneRow(r) /\ ~TransRow(r) /\ (r.exon_cover = 0 \/ r.synt = 0)

\* C30: a row that is neither a processed pseudogene row nor a trans row and
\* has exon_cover = 0 or synt = 0 is dropped: (no other kind of row carrying
\* its chain-gene pair) its chain is in none of the four lists of its gene
\* and in no row of the raw scores, and the row is handed to no model.
C30_HardFiltered ==
    \A i \in DOMAIN table :
       HardFilteredRow(table[i])
          => /\ cls_pc \in {"predict", "done"}
                   => table[i] \notin Range(df) \cup Range(df_se) \cup Range(df_me)
                                         \cup Range(trans_lines)
             /\ (cls_pc = "done" /\ \A j \in SamePair(i) : HardFilteredRow(table[j]))
                   => /\ ~InRawScores(i)
                      /\ table[i].chain
                            \notin ListedIn(i, {"ORTH", "PARA", "TRANS", "P_PGENES"})

C30_Witness ==
    /\ cls_pc = "done"
    /\ raw_out_file.written
    /\ Len(table) = 2
    /\ table[1].synt = 0
    /\ table[1].exon_cover = 100
    /\ HardFilteredRow(table[1])
    /\ ScorableRow(table[2])
    /\ table[2].gene = table[1].gene
    /\ table[2].chain # table[1].chain
    /\ table[1].gene \in DOMAIN gene_class_chains
    /\ Len(overall_result) = 1

\* the validation ended the run through die
GateFatal == pc = "exited" /\ exit_via = "die" /\ exit_status = 1

\* a line of a U12 file that is not well formed, as the claim describes it
U12Malformed(line) ==
    \/ Len(Fields(line)) # 3
    \/ ~IsNumeric(Fields(line)[2])
    \/ Fields(line)[3] \notin {"A", "D"}

\* C24: on a provided U12 file, a line without exactly 3 fields, with a
\* field 2 that is not numeric or with a field 3 other than A and D makes the
\* validation fatal; otherwise the lines whose transcript is not in the
\* annotation are dropped, the validation is fatal when none remains, and
\* else exactly the remaining lines are written to the project's U12 copy.
C24_U12Validation ==
    (gate.at = "u12" /\ gate.u12_arg = "file")
       => LET remaining ==
                 SelectSeq(gate.read, LAMBDA l : Fields(l)[1] \in gate.t_in_bed)
          IN  IF \E k \in DOMAIN gate.read : U12Malformed(gate.read[k])
              THEN GateFatal /\ ~gate.u12_copy.written
              ELSE IF remaining = <<>>
              THEN GateFatal /\ ~gate.u12_copy.written
              ELSE /\ pc = "gate_t_2bit"
                   /\ gate.u12_copy = [written |-> TRUE, lines |-> remaining]

\* the transcripts named by lines with two fields
TranscriptsOf(lines) == {Fields(lines[k])[2] : k \in DOMAIN lines}

C26_TwoBitValidation ==
    (gate.at \in {"t_2bit", "q_2bit"})
       => /\ gate.at = "t_2bit" => gate.read.chroms = gate.chroms_in_bed
          /\ IF ~gate.read.parsed \/ gate.read.sequences \cap gate.read.chroms = {}
             THEN GateFatal /\ records = {}
             ELSE pc \in {"gate_q_2bit", "init_dump", RunOrder[1]}
                     /\ exit_via = "none"

C26_Witness ==
    /\ gate.at = "q_2bit"
    /\ gate.read.parsed
    /\ gate.read.sequences = {"chr1"}
    /\ gate.read.chroms = {"chr1", "chr2"}
    /\ gate.chroms_in_bed = {"chr2"}
    /\ pc = "init_dump"

\* C27: when a path the controller needs does not exist (either 2bit file,
\* the CESAR binary, the filtered annotation, the chain file, a U12 or an
\* isoforms file that was given), the run ends through die before the
\* initialization completes.
C27_MissingPathFatal ==
    gate.at # "off"
       => /\ (pc \notin {"init_chain_filter", "init_find_two_bit"}
                 /\ (~args.tDB_exists \/ ~args.qDB_exists))
                => GateFatal
          /\ (gate.at = "exist"
                 /\ (~gate.read.cesar_binary \/ ~gate.read.ref_bed
                        \/ fs[chain_file] = "absent"
                        \/ gate.isoforms_arg = "missing"))
                => GateFatal
          /\ (gate.at = "u12" /\ gate.u12_arg = "missing") => GateFatal
          /\ records # {}
                => /\ args.tDB_exists /\ args.qDB_exists
                   /\ gate.u12_arg # "missing" /\ gate.isoforms_arg # "missing"

\* the controller is in the monitoring loop of __run_cesar_jobs
InMonitorLoop == pc \in {"monitor", "polled"}

MergeStarted == "merge_cesar_output" \in Range(started)

\* C28: once every launched request has finished, the monitoring loop
\* eventually terminates and the merge stage eventually starts; the controller
\* leaves the loop only when no launched request is still running, so it
\* stays in the loop for ever when one of them never finishes.
C28_MonitorLiveness ==
    /\ (InMonitorLoop /\ AllFinished) ~> MergeStarted
    /\ [][(InMonitorLoop /\ ~InMonitorLoop') => AllFinished]_vars

\* the number of rows of a sequence that equal row r
Copies(rows, r) == Cardinality({k \in DOMAIN rows : rows[k] = r})

\* no row stands in overall_result with a score, no trans row either
NothingScored == df_se = <<>> /\ df_me = <<>>

\* C31 as stated: every surviving row is scored by exactly one model, the
\* single-exon model exactly when its ex_num is 1, and when no row survives
\* the filtering the class table has no line besides the header.
C31_Original ==
    cls_pc = "done"
       => /\ \A i \in DOMAIN table :
                ScorableRow(table[i])
                   => Copies(df_se, table[i])
                         = (IF table[i].ex_num = 1 THEN Copies(table, table[i]) ELSE 0)
          /\ NothingScored => output_file.written /\ output_file.lines = {}

\* C31 (amended): every row that survives the filtering is handed to exactly
\* one model, the single-exon model exactly when its ex_num is 1 and the
\* multi-exon model otherwise, and no other row is handed to a model; when no
\* row survives, classify_chains still completes, and its class table has no
\* line besides the header exactly when the table has no trans row either
\* (the genes of trans rows keep their lines).
C31_ModelRouting ==
    /\ cls_pc \in {"predict", "done"}
          => /\ \A i \in DOMAIN table :
                   LET r == table[i]
                       n == IF ScorableRow(r) THEN Copies(table, r) ELSE 0
                   IN  /\ Copies(df_se, r) = (IF r.ex_num = 1 THEN n ELSE 0)
                       /\ Copies(df_me, r) = (IF r.ex_num = 1 THEN 0 ELSE n)
             /\ Range(df_se) \cup Range(df_me) \subseteq Range(table)
    /\ cls_pc = "done"
          => /\ Len(SelectSeq(overall_result, LAMBDA r : r.pred # -1))
                   = Len(SelectSeq(table, ScorableRow))
             /\ NothingScored
                   => /\ output_file.written
                      /\ output_file.lines = {} <=> trans_lines = <<>>
                      /\ \A l \in output_file.lines :
                            l.ORTH = <<0>> /\ l.PARA = <<0>> /\ l.TRANS # <<0>>

C31_Witness ==
    /\ cls_pc = "done"
    /\ Len(table) = 2
    /\ ScorableRow(table[1])
    /\ ScorableRow(table[2])
    /\ df_se = <<table[2]>>
    /\ df_me = <<table[1]>>

C31_WitnessEmpty ==
    /\ cls_pc = "done"
    /\ table # <<>>
    /\ NothingScored
    /\ trans_lines = <<>>
    /\ output_file.written
    /\ output_file.lines = {}

\* C32: temp_files is only ever appended to: in every step of a run the list
\* either stays as it is or gains entries at its end, the entries it had
\* keeping their places; die itself leaves the list as it is.
C32_TempFilesAdditive == [][IsPrefix(temp_files, temp_files')]_vars

C32_Witness ==
    /\ Len(temp_files) > 4
    /\ SubSeq(temp_files, 1, 4)
          = << chain_index_file, chain_file, chain_index_txt_file, index_bed_file >>
    /\ temp_files[Len(temp_files)] = intermediate_bed
    /\ "merge_cesar_output" \in Range(returned)

\* the stages that completed: those that returned to run(), and the
\* classification of a run halted on request once classify_chains returned
Completed ==
    IF pc = "exited" /\ EarlyStop /\ stderr_msg # "Error! Process died! Abort."
    THEN Append(returned, "classify_chains")
    ELSE returned

\* the records the claim has written so far: one for the two index stages
\* (step 0 of run), one for each later stage that completed
RecordsDue ==
    Cardinality({i \in DOMAIN Completed : Completed[i] # "make_indexed_chain"})

\* C33: with timestamp logging enabled one record follows each stage that
\* completes, the classification of a run that stops there and the orthology
\* mapping included; with logging disabled no record is ever written.
C33_TimestampPerStage ==
    /\ ~args.time_marks => time_marks = <<>>
    /\ args.time_marks => Len(time_marks) = RecordsDue

\* the second case the claim names: no record follows the orthology mapping
C33_OrthologyMapUnmarked ==
    ~ /\ args.time_marks
      /\ pc = "merge_split_files"
      /\ Len(time_marks) < RecordsDue

\* the program points of __init__, the dump of lines 163-171 the last
InitPcs ==
    {"init_modules", "init_nf_config", "init_chain_filter", "init_find_two_bit",
     "init_check_param_files", "init_dump"}

BothRecords == {"toga_init_state.json", "project_args.json"}

\* C34: the two persisted records are written together and only once the
\* validation has passed: none is there while __init__ is before the end of
\* its dump, a run that fails the validation (or ends anywhere in __init__)
\* leaves neither, and a stage of run() starts only with both written.
C34_RecordsAfterValidation ==
    /\ records \in {{}, BothRecords}
    /\ pc \in InitPcs => records = {}
    /\ stderr_msg = "Error! Validation failed" => records = {}
    /\ (pc = "exited" /\ started = <<>>) => records = {}
    /\ started # <<>> => records = BothRecords

C34_Witness ==
    /\ pc = "make_indexed_bed"
    /\ started = << "make_indexed_chain" >>
    /\ records = BothRecords

C34_WitnessFailed ==
    /\ pc = "exited"
    /\ stderr_msg = "Error! Validation failed"
    /\ records = {}

\* C35: temp_files is empty at every program point of __init__, so a die
\* called there, also before keep_temp is assigned at line 126, removes
\* nothing of what the run created and ends through sys.exit, the unassigned
\* keep_temp never read.
C35_InitTempFilesEmpty ==
    /\ pc \in InitPcs => temp_files = <<>>
    /\ keep_temp = "unset" => temp_files = <<>>
    /\ (pc = "exited" /\ started = <<>> /\ exit_via = "die")
          => /\ temp_files = <<>>
             /\ cleanups = 1
             /\ exit_status = die_rc
             /\ \A p \in created : fs[p] # "absent"

C35_Witness ==
    /\ pc = "exited"
    /\ started = <<>>
    /\ keep_temp = "unset"
    /\ stderr_msg = "Error! Process died! Abort."
    /\ chain_file \in created
    /\ fs[chain_file] = "file"
    /\ exit_via = "die"

\* grep finds no line of the combined job list for any declared bucket (the
\* single pool is never empty in this sense: it is launched as it is)
EveryBucketEmpty ==
    \A i \in DOMAIN args.cesar_buckets :
       NoJobs(args.cesar_buckets[i], BucketTasks(joblist, args.cesar_buckets[i]))

\* C36: when every declared bucket is empty no request is launched: the
\* monitoring loop is entered with no handle and no log directory tracked,
\* its first check finds all done, the step that leaves the loop removes
\* nothing and goes on to the merge of the realignment output, which is
\* always reached.
C36_EmptyBucketsPassMonitor ==
    /\ []((EveryBucketEmpty /\ pc \in {"monitor", "polled"})
             => /\ processes = <<>>
                /\ project_paths = <<>>
                /\ pc = "polled" => all_done)
    /\ [][(EveryBucketEmpty /\ pc = "polled")
             => /\ pc' = "merge_cesar_output"
                /\ fs' = fs
                /\ processes' = <<>>]_vars
    /\ (EveryBucketEmpty /\ pc = "monitor") ~> (pc = "merge_cesar_output")

C36_Witness ==
    /\ pc = "merge_cesar_output"
    /\ args.cesar_buckets # <<>>
    /\ joblist # <<>>
    /\ EveryBucketEmpty
    /\ processes = <<>>
    /\ project_paths = <<>>
    /\ all_done

\* the status the feature-extraction request returned, -1 before it did
ChainFeatsRc == rcs["nextflow_chain_feats"]

\* C37: run() is past the call of the feature-extraction request only once
\* the request returned; from then on its log directory is gone exactly when
\* the status was 0 and the logs were not asked to be kept; a non-zero status
\* leaves the directory, ends the run in the terminal error state and the
\* merge of the feature output never starts.
C37_ExtractChainFeatures ==
    /\ "extract_chain_features" \in Range(started)
          => /\ ChainFeatsRc # -1
             /\ nf_chain_feats_path \in created
             /\ fs[nf_chain_feats_path] = "absent"
                   <=> (ChainFeatsRc = 0 /\ ~args.do_not_del_nf_logs)
             /\ ChainFeatsRc # 0
                   => /\ fs[nf_chain_feats_path] = "dir"
                      /\ TerminalError(4)
                      /\ stderr_msg = "Error! Process died"
             /\ ChainFeatsRc = 0 => "extract_chain_features" \in Range(returned)
    /\ "merge_chains_output" \in Range(started) => ChainFeatsRc = 0

C37_Witness ==
    /\ pc = "exited"
    /\ ChainFeatsRc = 2
    /\ ~args.do_not_del_nf_logs
    /\ keep_temp = "False"
    /\ fs[nf_chain_feats_path] = "dir"
    /\ started[Len(started)] = "extract_chain_features"
    /\ exit_status = 1

C37_WitnessDeleted ==
    /\ pc = "merge_chains_output"
    /\ ChainFeatsRc = 0
    /\ ~args.do_not_del_nf_logs
    /\ fs[nf_chain_feats_path] = "absent"

====
